---- MODULE Spec2Model ----
(***************************************************************************)
(* A model of list_missing_libs.py: BrokenFinder walks library roots and   *)
(* binary roots, hands every non-link candidate to one daemon worker       *)
(* thread through a Queue, waits on job_queue.join() and reports the       *)
(* names in lib2required_by that are not in found.                         *)
(*                                                                         *)
(* File names are sequences of one-character strings, so that the regular  *)
(* expression of enumerate_shared_libs is matched character by character.  *)
(* DT_NEEDED entries are byte sequences, decoded by bytes2str.             *)
(***************************************************************************)
EXTENDS Integers, Sequences, FiniteSets, Bags, TLC

\* ------------------------------------------------------------------ bounds

\* At most this many of the catalogue's files exist in one filesystem.
MaxFiles == 2
\* check() is called at most this many times on one BrokenFinder.
MaxChecks == 2
\* File names of the name-matching specification have at most this length.
MaxNameLen == 6

\* ------------------------------------------------------------- characters

Letters == << "a", "b", "c", "d", "e", "f", "g", "h", "i", "j", "k", "l", "m",
              "n", "o", "p", "q", "r", "s", "t", "u", "v", "w", "x", "y", "z" >>
Digits == << "0", "1", "2", "3", "4", "5", "6", "7", "8", "9" >>

\* \d of the re module, on the characters of the model.
IsDigit(c) == \E i \in 1..Len(Digits) : Digits[i] = c

\* One byte decoded as latin-1: code point b becomes the character b.
Latin1(b) ==
    IF b >= 97 /\ b <= 122 THEN Letters[b - 96]
    ELSE IF b >= 48 /\ b <= 57 THEN Digits[b - 47]
    ELSE IF b = 46 THEN "."
    ELSE "?"

\* A variant that drops the last byte, as if it were a terminator.
bytes2str_truncated(b) == [i \in 1..(Len(b) - 1) |-> Latin1(b[i])]

\* bytes2str of elftools.common.py3compat: b.decode('latin-1').
bytes2str(b) == [i \in 1..Len(b) |-> Latin1(b[i])]

\* The bytes an ASCII name has in an object's string table.
Ascii(s) == [i \in 1..Len(s) |-> CHOOSE b \in 46..122 : Latin1(b) = s[i]]

\* ------------------------------------------------- the shared-object regex

\* s has the literal text lit at position p.
HasAt(s, p, lit) ==
    /\ p >= 1
    /\ p + Len(lit) - 1 <= Len(s)
    /\ \A k \in 1..Len(lit) : s[p + k - 1] = lit[k]

\* The positions right after a match of \d+ that starts at p.
RECURSIVE DigitsEnd(_, _)
DigitsEnd(s, p) ==
    IF p <= Len(s) /\ IsDigit(s[p])
    THEN {p + 1} \cup DigitsEnd(s, p + 1)
    ELSE {}

\* The positions right after a match of (\.\d+)+ that starts at p.
RECURSIVE VersionEnd(_, _)
VersionEnd(s, p) ==
    IF HasAt(s, p, << "." >>)
    THEN LET one == DigitsEnd(s, p + 1)
         IN  one \cup UNION {VersionEnd(s, q) : q \in one}
    ELSE {}

\* re.match(somatching, fname): the pattern is anchored at the start of fname
\* only. The first alternative ends in \Z; the second alternative does not.
somatching(fname) ==
    \E i \in 1..(Len(fname) + 1) :
        /\ HasAt(fname, i, << ".", "s", "o" >>)
        /\ \/ i + 3 = Len(fname) + 1
           \/ VersionEnd(fname, i + 3) # {}

\* ------------------------------------------------------------ filesystem

\* File names, as the character sequences os.walk yields.
libfoo_so_1 == << "l", "i", "b", "f", "o", "o", ".", "s", "o", ".", "1" >>
libfoo_so == << "l", "i", "b", "f", "o", "o", ".", "s", "o" >>
libbar_so == << "l", "i", "b", "b", "a", "r", ".", "s", "o" >>
libbaz_so_2 == << "l", "i", "b", "b", "a", "z", ".", "s", "o", ".", "2" >>
libqux_so == << "l", "i", "b", "q", "u", "x", ".", "s", "o" >>
libdup_so == << "l", "i", "b", "d", "u", "p", ".", "s", "o" >>
app == << "a", "p", "p" >>
notes_txt == << "n", "o", "t", "e", "s", ".", "t", "x", "t" >>
gone == << "g", "o", "n", "e" >>
dangling == << "d", "a", "n", "g", "l", "i", "n", "g" >>
secret == << "s", "e", "c", "r", "e", "t" >>
tool == << "t", "o", "o", "l" >>

\* What open() and the ELF parser do with a regular file:
\*   "elf"      ELFFile(f) accepts the header; the dynamic section holds the
\*              DT_NEEDED entries `needed`; when error_after is k >= 0 the
\*              parser raises ELFError after k of them were read;
\*   "notelf"   ELFFile(f) raises ELFError on the header;
\*   "denied"   open() raises PermissionError;
\*   "vanished" open() raises FileNotFoundError (the file was removed after
\*              os.walk listed it).
NoError == -1
Elf(needed, error_after) ==
    [kind |-> "elf", needed |-> needed, error_after |-> error_after]
NotElf == [kind |-> "notelf", needed |-> << >>, error_after |-> NoError]
Denied == [kind |-> "denied", needed |-> << >>, error_after |-> NoError]
Vanished == [kind |-> "vanished", needed |-> << >>, error_after |-> NoError]

File(dpath, fname, islink, body) ==
    [dpath |-> dpath, fname |-> fname, islink |-> islink, body |-> body]

\* The files a filesystem of the model is made of, in directory order.
Catalogue == <<
    File("/usr/lib", libfoo_so_1, FALSE, Elf(<< >>, NoError)),
    File("/usr/lib", libbar_so, FALSE, Elf(<< Ascii(libbaz_so_2) >>, NoError)),
    File("/usr/lib", libfoo_so, TRUE, NotElf),
    File("/opt/lib", libqux_so, FALSE, Elf(<< Ascii(libbaz_so_2) >>, 1)),
    File("/usr/bin", app, FALSE,
         Elf(<< Ascii(libfoo_so_1), Ascii(libqux_so) >>, NoError)),
    File("/usr/bin", secret, FALSE, Denied),
    File("/usr/bin", notes_txt, FALSE, NotElf),
    File("/usr/bin", gone, FALSE, Vanished),
    File("/usr/bin", libbaz_so_2, TRUE, NotElf),
    File("/usr/bin", libdup_so, FALSE, Elf(<< Ascii(libqux_so) >>, NoError)),
    File("/home/bin", dangling, TRUE, NotElf),
    File("/home/bin", tool, FALSE, Elf(<< Ascii(libqux_so) >>, NoError))
>>

\* Symbolic links of the catalogue whose target does not exist.
BrokenLinks == { << "/usr/bin", libbaz_so_2 >>, << "/home/bin", dangling >> }

\* dpath lies in the tree os.walk(root) traverses.
Under(dpath, root) ==
    << dpath, root >> \in { << "/usr/lib", "/usr" >>, << "/usr/bin", "/usr" >>,
                           << "/usr/bin", "/usr/bin" >>,
                           << "/home/bin", "/home/bin" >>,
                           << "/opt/lib", "/opt" >> }

\* os.environ.get("PATH", "/usr/bin").split(":")
PATH == << "/usr/bin", "/nonexistent", "/home/bin" >>

\* os.path.islink(fullname)
os_path_islink(f) == f.islink

\* os.path.join(dpath, fname)
fullname(f) == << f.dpath, f.fname >>

VARIABLES
    files,            \* the directory entries of the filesystem, in walk order
    libdirs,          \* self.libdirs
    bindirs,          \* self.bindirs
    found,            \* self.found
    lib2required_by,  \* self.lib2required_by
    job_queue,        \* the items of self.job_queue
    unfinished,       \* self.job_queue.unfinished_tasks
    pc,               \* where the main thread is
    idx,              \* how many entries of the chained walk check() consumed
    nchecks,          \* how many times check() was called
    missing_libs,     \* the local of check()
    wpc,              \* where each worker thread is
    item,             \* the item each worker took from the queue
    tagpos,           \* how many DT_NEEDED tags each worker read of its item
    submitted,        \* history: the paths this check() put on the queue
    extracted,        \* history: the bag of paths collect_needed was called with
    warnings,         \* stderr: per check(), the paths warn() was called for
    reports           \* stderr: per finished check(), the lines it printed

vars == << files, libdirs, bindirs, found, lib2required_by, job_queue,
           unfinished, pc, idx, nchecks, missing_libs, wpc, item, tagpos,
           submitted, extracted, warnings, reports >>

Workers == 1..MaxChecks

\* ------------------------------------------------------------- traversal

\* The entries os.walk(root) lists, for one root.
walk(root) == SelectSeq(files, LAMBDA f : Under(f.dpath, root))

\* A variant in which the first root that does not exist ends the traversal.
RECURSIVE walk_multi_dir_aborts(_)
walk_multi_dir_aborts(dirs) ==
    IF dirs = << >> \/ Head(dirs) = "/nonexistent" THEN << >>
    ELSE walk(Head(dirs)) \o walk_multi_dir_aborts(Tail(dirs))

\* walk_multi_dir(dirs): the chain of os.walk(d) for d in dirs; os.walk of a
\* directory that does not exist yields nothing.
RECURSIVE walk_multi_dir(_)
walk_multi_dir(dirs) ==
    IF dirs = << >> THEN << >>
    ELSE walk(Head(dirs)) \o walk_multi_dir(Tail(dirs))

LibWalk == walk_multi_dir(libdirs)
BinWalk == walk_multi_dir(bindirs)

\* itools.chain(self.enumerate_shared_libs(), self.enumerate_binaries()), as
\* the directory entries the two generators look at, in order.
ChainLen == Len(LibWalk) + Len(BinWalk)

\* The body open() finds at a path.
BodyAt(path) == (CHOOSE f \in {files[i] : i \in 1..Len(files)} : fullname(f) = path).body

\* Count of x in the sequence s.
Count(s, x) == Cardinality({i \in 1..Len(s) : s[i] = x})

\* ----------------------------------------------------------- construction

\* Every filesystem of at most MaxFiles catalogue files.
Filesystems ==
    { SelectSeq(Catalogue, LAMBDA f : f \in S) :
        S \in { T \in SUBSET {Catalogue[i] : i \in 1..Len(Catalogue)} :
                    Cardinality(T) <= MaxFiles } }

\* BrokenFinder.__init__ on the filesystem fs.
Constructed(fs) ==
    /\ files = fs
    /\ found = {}
    /\ lib2required_by = [n \in {} |-> << >>]
    /\ bindirs = PATH
    /\ libdirs = IF \E i \in 1..Len(fs) : Under(fs[i].dpath, "/opt")
                 THEN << "/usr", "/opt" >> ELSE << "/usr" >>
    /\ job_queue = << >>
    /\ unfinished = 0
    /\ pc = "idle"
    /\ idx = 0
    /\ nchecks = 0
    /\ missing_libs = {}
    /\ wpc = [w \in Workers |-> "unstarted"]
    /\ item = [w \in Workers |-> << >>]
    /\ tagpos = [w \in Workers |-> 0]
    /\ submitted = << >>
    /\ extracted = EmptyBag
    /\ warnings = << >>
    /\ reports = << >>

Init == \E fs \in Filesystems : Constructed(fs)

\* ------------------------------------------------------------ main thread

\* A variant on a Queue(maxsize=1): put blocks while an item is queued.
put_bounded(path) ==
    /\ Len(job_queue) < 1
    /\ job_queue' = Append(job_queue, path)
    /\ unfinished' = unfinished + 1
    /\ submitted' = Append(submitted, path)

\* Queue.put on the unbounded Queue(): never blocks.
put(path) ==
    /\ job_queue' = Append(job_queue, path)
    /\ unfinished' = unfinished + 1
    /\ submitted' = Append(submitted, path)

\* A variant that counts a library as available only when its own dynamic
\* section was parsed to the end and declared something.
adds_found_when_parsed(f) ==
    /\ somatching(f.fname)
    /\ f.body.kind = "elf"
    /\ f.body.error_after = NoError
    /\ f.body.needed # << >>

\* enumerate_shared_libs adds the name of this entry to self.found.
adds_found(f) == somatching(f.fname)

\* A variant that forgets the islink test of line 53.
yields_lib_links_too(f) == somatching(f.fname)

\* enumerate_shared_libs yields this entry.
yields_lib(f) == somatching(f.fname) /\ ~os_path_islink(f)

\* A variant that forgets the islink test of line 60.
yields_bin_links_too(f) == TRUE

\* enumerate_binaries yields this entry.
yields_bin(f) == ~os_path_islink(f)

\* A variant that waits for an empty queue instead of for every task_done.
join_returns_when_queue_empty == job_queue = << >>

\* Queue.join returns: every put has had its task_done.
join_returns == unfinished = 0

\* A variant that reports every required name.
all_keys == DOMAIN lib2required_by

\* self.lib2required_by.keys() - self.found
keys_minus_found == (DOMAIN lib2required_by) \ found

\* check(), lines 91-93: a new daemon thread runs worker().
check_start ==
    /\ pc \in {"idle", "returned"}
    /\ nchecks < MaxChecks
    /\ nchecks' = nchecks + 1
    /\ wpc' = [wpc EXCEPT ![nchecks + 1] = "get"]
    /\ pc' = "enumerate"
    /\ idx' = 0
    /\ missing_libs' = {}
    /\ submitted' = << >>
    /\ extracted' = EmptyBag
    /\ warnings' = Append(warnings, << >>)
    /\ UNCHANGED << files, libdirs, bindirs, found, lib2required_by, job_queue,
                    unfinished, item, tagpos, reports >>

\* One directory entry of enumerate_shared_libs, and the put of check() when
\* the generator yields it.
enumerate_shared_libs ==
    /\ pc = "enumerate"
    /\ idx < Len(LibWalk)
    /\ LET f == LibWalk[idx + 1] IN
        /\ found' = IF adds_found(f) THEN found \cup {f.fname} ELSE found
        /\ IF yields_lib(f)
           THEN put(fullname(f))
           ELSE UNCHANGED << job_queue, unfinished, submitted >>
    /\ idx' = idx + 1
    /\ UNCHANGED << files, libdirs, bindirs, lib2required_by, pc, nchecks,
                    missing_libs, wpc, item, tagpos, extracted, warnings,
                    reports >>

\* One directory entry of enumerate_binaries, and the put of check() when the
\* generator yields it.
enumerate_binaries ==
    /\ pc = "enumerate"
    /\ idx >= Len(LibWalk)
    /\ idx < ChainLen
    /\ LET f == BinWalk[idx + 1 - Len(LibWalk)] IN
        IF yields_bin(f)
        THEN put(fullname(f))
        ELSE UNCHANGED << job_queue, unfinished, submitted >>
    /\ idx' = idx + 1
    /\ UNCHANGED << files, libdirs, bindirs, found, lib2required_by, pc,
                    nchecks, missing_libs, wpc, item, tagpos, extracted,
                    warnings, reports >>

\* check(), line 96: the chain is exhausted and job_queue.join() returns.
join ==
    /\ pc = "enumerate"
    /\ idx = ChainLen
    /\ join_returns
    /\ pc' = "joined"
    /\ UNCHANGED << files, libdirs, bindirs, found, lib2required_by, job_queue,
                    unfinished, idx, nchecks, missing_libs, wpc, item, tagpos,
                    submitted, extracted, warnings, reports >>

\* check(), line 97.
read_missing ==
    /\ pc = "joined"
    /\ missing_libs' = keys_minus_found
    /\ pc' = "report"
    /\ UNCHANGED << files, libdirs, bindirs, found, lib2required_by, job_queue,
                    unfinished, idx, nchecks, wpc, item, tagpos, submitted,
                    extracted, warnings, reports >>

NotFoundWarning == << "The following libraries were not found" >>

\* check(), lines 98-101: the warning and one line per missing library, each
\* with the requirers lib2required_by holds for it.
print_report ==
    /\ pc = "report"
    /\ warnings' = IF missing_libs # {}
                   THEN [warnings EXCEPT ![nchecks] = Append(@, NotFoundWarning)]
                   ELSE warnings
    /\ reports' = Append(reports, [n \in missing_libs |-> lib2required_by[n]])
    /\ pc' = "returned"
    /\ UNCHANGED << files, libdirs, bindirs, found, lib2required_by, job_queue,
                    unfinished, idx, nchecks, missing_libs, wpc, item, tagpos,
                    submitted, extracted >>

\* ---------------------------------------------------------------- worker

\* The DT_NEEDED loop of collect_needed has a tag to read after k tags.
more_tags(body, k) ==
    /\ k < Len(body.needed)
    /\ body.error_after = NoError \/ k < body.error_after

\* self.lib2required_by[name].append(sofile) on the defaultdict(list).
appended(name, sofile) ==
    IF name \in DOMAIN lib2required_by
    THEN [lib2required_by EXCEPT ![name] = Append(@, sofile)]
    ELSE lib2required_by @@ (name :> << sofile >>)

\* worker(), line 86: job_queue.get() blocks while the queue is empty.
get(w) ==
    /\ wpc[w] = "get"
    /\ job_queue # << >>
    /\ item' = [item EXCEPT ![w] = Head(job_queue)]
    /\ job_queue' = Tail(job_queue)
    /\ wpc' = [wpc EXCEPT ![w] = "collect"]
    /\ UNCHANGED << files, libdirs, bindirs, found, lib2required_by,
                    unfinished, pc, idx, nchecks, missing_libs, tagpos,
                    submitted, extracted, warnings, reports >>

\* collect_needed, lines 65-67: the file opens and ELFFile accepts its header.
open_elf(w) ==
    /\ wpc[w] = "collect"
    /\ BodyAt(item[w]).kind = "elf"
    /\ extracted' = extracted (+) SetToBag({item[w]})
    /\ tagpos' = [tagpos EXCEPT ![w] = 0]
    /\ wpc' = [wpc EXCEPT ![w] = IF more_tags(BodyAt(item[w]), 0)
                                 THEN "tags" ELSE "task_done"]
    /\ UNCHANGED << files, libdirs, bindirs, found, lib2required_by, job_queue,
                    unfinished, pc, idx, nchecks, missing_libs, item,
                    submitted, warnings, reports >>

\* collect_needed, lines 72-77: one DT_NEEDED tag of the dynamic section; the
\* loops end after the last tag, or with the ELFError caught at line 79.
needed_tag(w) ==
    /\ wpc[w] = "tags"
    /\ LET body == BodyAt(item[w]) IN
        /\ lib2required_by' =
              appended(bytes2str(body.needed[tagpos[w] + 1]), item[w])
        /\ wpc' = [wpc EXCEPT ![w] = IF more_tags(body, tagpos[w] + 1)
                                     THEN "tags" ELSE "task_done"]
    /\ tagpos' = [tagpos EXCEPT ![w] = @ + 1]
    /\ UNCHANGED << files, libdirs, bindirs, found, job_queue, unfinished, pc,
                    idx, nchecks, missing_libs, item, submitted, extracted,
                    warnings, reports >>

\* collect_needed, lines 67 and 79-80: ELFFile raises ELFError on the header.
open_not_elf(w) ==
    /\ wpc[w] = "collect"
    /\ BodyAt(item[w]).kind = "notelf"
    /\ extracted' = extracted (+) SetToBag({item[w]})
    /\ wpc' = [wpc EXCEPT ![w] = "task_done"]
    /\ UNCHANGED << files, libdirs, bindirs, found, lib2required_by, job_queue,
                    unfinished, pc, idx, nchecks, missing_libs, item, tagpos,
                    submitted, warnings, reports >>

\* collect_needed, lines 65 and 81-82: open raises PermissionError.
open_denied(w) ==
    /\ wpc[w] = "collect"
    /\ BodyAt(item[w]).kind = "denied"
    /\ extracted' = extracted (+) SetToBag({item[w]})
    /\ warnings' = [warnings EXCEPT ![nchecks] = Append(@, item[w])]
    /\ wpc' = [wpc EXCEPT ![w] = "task_done"]
    /\ UNCHANGED << files, libdirs, bindirs, found, lib2required_by, job_queue,
                    unfinished, pc, idx, nchecks, missing_libs, item, tagpos,
                    submitted, reports >>

\* collect_needed, line 65: open raises an OSError that is no PermissionError.
\* No except clause of collect_needed or worker catches it: the thread ends
\* without task_done.
open_raises(w) ==
    /\ wpc[w] = "collect"
    /\ BodyAt(item[w]).kind = "vanished"
    /\ extracted' = extracted (+) SetToBag({item[w]})
    /\ wpc' = [wpc EXCEPT ![w] = "dead"]
    /\ UNCHANGED << files, libdirs, bindirs, found, lib2required_by, job_queue,
                    unfinished, pc, idx, nchecks, missing_libs, item, tagpos,
                    submitted, warnings, reports >>

\* worker(), line 88.
task_done(w) ==
    /\ wpc[w] = "task_done"
    /\ unfinished' = unfinished - 1
    /\ wpc' = [wpc EXCEPT ![w] = "get"]
    /\ UNCHANGED << files, libdirs, bindirs, found, lib2required_by, job_queue,
                    pc, idx, nchecks, missing_libs, item, tagpos, submitted,
                    extracted, warnings, reports >>

\* -------------------------------------------------------- specifications

main ==
    \/ check_start
    \/ enumerate_shared_libs
    \/ enumerate_binaries
    \/ join
    \/ read_missing
    \/ print_report

worker(w) ==
    \/ get(w)
    \/ open_elf(w)
    \/ needed_tag(w)
    \/ open_not_elf(w)
    \/ open_denied(w)
    \/ open_raises(w)
    \/ task_done(w)

Next == main \/ \E w \in Workers : worker(w)

Spec == Init /\ [][Next]_vars

\* The scheduler runs every thread that can take a step: the main thread
\* inside check(), and each worker thread.
main_in_check ==
    \/ enumerate_shared_libs
    \/ enumerate_binaries
    \/ join
    \/ read_missing
    \/ print_report

FairSpec ==
    /\ Init
    /\ [][Next]_vars
    /\ WF_vars(main_in_check)
    /\ \A w \in Workers : WF_vars(worker(w))

\* -------------------------------------------------- scenario specification

\* A library root holding libfoo.so.1 (no dynamic section) and libbar.so
\* (requires libbaz.so.2), and a binary root holding app (requires libfoo.so.1
\* and libqux.so).
Scenario ==
    SelectSeq(Catalogue, LAMBDA f : f.fname \in {libfoo_so_1, libbar_so, app})

InitScenario == Constructed(Scenario)

\* What the worker does with files that open and parse.
worker_elf(w) ==
    \/ get(w)
    \/ open_elf(w)
    \/ needed_tag(w)
    \/ task_done(w)

NextScenario == main \/ \E w \in Workers : worker_elf(w)

SpecScenario == InitScenario /\ [][NextScenario]_vars

\* ---------------------------------------------------- names specification

\* The characters of the names the pattern is tried on: the three literal
\* characters of ".so", and a digit.
NameChars == { ".", "s", "o", "1" }

Names ==
    (UNION { [1..k -> NameChars] : k \in 1..MaxNameLen })
        \ { << "." >>, << ".", "." >> }

\* A BrokenFinder whose only library root holds one file, of any name.
InitNames ==
    \E n \in Names, l \in BOOLEAN :
        Constructed(<< File("/usr/lib", n, l, Elf(<< >>, NoError)) >>)

NextNames == check_start \/ enumerate_shared_libs

SpecNames == InitNames /\ [][NextNames]_vars

\* ------------------------------------------------------- claim vocabulary

\* The paths of the filesystem, and of every filesystem of the model.
Paths == { fullname(files[i]) : i \in 1..Len(files) }
CataloguePaths == { fullname(Catalogue[i]) : i \in 1..Len(Catalogue) }

\* check() has looked at entry i of the chained walk in its current or last run.
Visited(i) == nchecks >= 1 /\ (pc # "enumerate" \/ idx >= i)

\* The path p is on the queue, or in the hands of a worker.
InQueue(p) == \E i \in 1..Len(job_queue) : job_queue[i] = p
InHand(p) ==
    \E w \in Workers : wpc[w] \in {"collect", "tags", "task_done"} /\ item[w] = p

\* The path p is a requirer of some name of the Requirement Index.
IsRequirer(p) ==
    \E n \in DOMAIN lib2required_by :
        \E i \in 1..Len(lib2required_by[n]) : lib2required_by[n][i] = p

\* The main thread is past job_queue.join() in the current call of check().
PastJoin == pc \in {"joined", "report", "returned"}

\* The text t is one or more dot-separated numeric components: .N[.M...]
NumericComponents(t) ==
    /\ Len(t) >= 2
    /\ t[1] = "."
    /\ IsDigit(t[Len(t)])
    /\ \A k \in 1..Len(t) : t[k] = "." \/ IsDigit(t[k])
    /\ \A k \in 1..(Len(t) - 1) : ~(t[k] = "." /\ t[k + 1] = ".")

\* The name ends in .so, or in .so followed by numeric version components.
SharedLibName(s) ==
    \E n \in 0..(Len(s) - 3) :
        /\ SubSeq(s, n + 1, n + 3) = << ".", "s", "o" >>
        /\ \/ n + 3 = Len(s)
           \/ NumericComponents(SubSeq(s, n + 4, Len(s)))

\* The DT_NEEDED names collect_needed reads from the file at p before its
\* loops end.
NamesRead(p) ==
    LET body == BodyAt(p)
        n == IF body.kind # "elf" THEN 0
             ELSE IF body.error_after = NoError THEN Len(body.needed)
             ELSE body.error_after
    IN  { bytes2str(body.needed[k]) : k \in 1..n }

\* Parsing the file at p ends in ELFError, at the header or later.
FormatError(p) ==
    \/ BodyAt(p).kind = "notelf"
    \/ BodyAt(p).kind = "elf" /\ BodyAt(p).error_after # NoError

\* The warnings of the current check() that name the path p.
WarningsFor(p) == IF nchecks = 0 THEN 0 ELSE Count(warnings[nchecks], p)

\* --------------------------------------------------------------- claims

\* C1: the main thread reads lib2required_by and found (line 97 and the
\* report after it) only when no submitted path is still on the queue or in
\* the hands of a worker, and collect_needed was called for every submission.
C1_ReadOnlyAfterDrain ==
    PastJoin =>
        /\ job_queue = << >>
        /\ \A p \in Paths : ~InHand(p)
        /\ \A p \in Paths : CopiesIn(p, extracted) = Count(submitted, p)

\* A check() that submitted two paths and found requirements has read them.
C1_Witness ==
    /\ pc = "report"
    /\ Len(submitted) >= 2
    /\ missing_libs # {}

\* C2: every path the queue accepted is eventually passed to collect_needed,
\* once per submission and never more often, and when join() has returned the
\* names read from every submitted path are in lib2required_by with that path
\* as a requirer.
C2_AcceptedPathsExtractedOnce ==
    \A p \in CataloguePaths :
        /\ [](CopiesIn(p, extracted) <= Count(submitted, p))
        /\ [](PastJoin /\ Count(submitted, p) > 0 =>
                \A n \in NamesRead(p) :
                    /\ n \in DOMAIN lib2required_by
                    /\ Count(lib2required_by[n], p) > 0)
        /\ (Count(submitted, p) > CopiesIn(p, extracted))
              ~> (Count(submitted, p) = CopiesIn(p, extracted))

\* C3: whatever open() or the parser does with one file, the scan goes on: the
\* program stops only when its last check() has returned.
C3_NoFileStallsTheScan ==
    (pc = "returned" /\ nchecks = MaxChecks) \/ ENABLED Next

\* C4: the names check() reports are exactly keys(lib2required_by) minus found.
C4_ReportIsKeysMinusFound ==
    pc = "returned" =>
        DOMAIN reports[Len(reports)] = (DOMAIN lib2required_by) \ found

\* A report that names a missing library while another required name is
\* available and is not reported.
C4_Witness ==
    /\ pc = "returned"
    /\ DOMAIN reports[Len(reports)] # {}
    /\ (DOMAIN lib2required_by) \cap found # {}

\* C5: a second check() on the same BrokenFinder and the same filesystem
\* reports what the first reported: the same names, each with the same
\* requirer list.
C5_SecondCheckReportsTheSame ==
    Len(reports) >= 2 => reports[2] = reports[1]

\* C6: a file whose parsing ends in a format error, at the header or at any
\* later point, is no requirer in lib2required_by and is never warned about.
C6_FormatErrorLeavesNoEdge ==
    \A p \in Paths :
        FormatError(p) => ~IsRequirer(p) /\ WarningsFor(p) = 0

C8_OnlySharedLibNamesAreLibraries ==
    Visited(1) =>
        /\ files[1].fname \in found <=> SharedLibName(files[1].fname)
        /\ submitted # << >> => SharedLibName(files[1].fname)

\* C9: a symlink with a shared-library name under a library root has its name
\* in found once check() has looked at it, and its path is never on the queue,
\* never in the hands of a worker and never passed to collect_needed.
C9_SymlinkedLibraryAvailableNeverQueued ==
    \A i \in 1..Len(LibWalk) :
        LET f == LibWalk[i] IN
        (f.islink /\ SharedLibName(f.fname)) =>
            /\ Visited(i) => f.fname \in found
            /\ ~InQueue(fullname(f))
            /\ ~InHand(fullname(f))
            /\ Count(submitted, fullname(f)) = 0
            /\ CopiesIn(fullname(f), extracted) = 0

\* A finished check() that looked at a symlinked library and at another file
\* it did extract.
C9_Witness ==
    /\ pc = "returned"
    /\ \E i \in 1..Len(LibWalk) :
          LibWalk[i].islink /\ LibWalk[i].fname \in found
    /\ submitted # << >>

\* C10, as claimed: a broken symlink under a binary root is never submitted
\* for extraction and its name is never in found.
C10_BrokenLinkSkippedEntirely ==
    \A i \in 1..Len(BinWalk) :
        LET f == BinWalk[i] IN
        fullname(f) \in BrokenLinks =>
            /\ Count(submitted, fullname(f)) = 0
            /\ ~InQueue(fullname(f))
            /\ f.fname \notin found

\* C10, amended: a broken symlink under a binary root is never submitted for
\* extraction, and its name is in found only when a file of that name which
\* the pattern of enumerate_shared_libs accepts lies under a library root.
C10_BrokenLinkNeverSubmitted ==
    \A i \in 1..Len(BinWalk) :
        LET f == BinWalk[i] IN
        fullname(f) \in BrokenLinks =>
            /\ Count(submitted, fullname(f)) = 0
            /\ ~InQueue(fullname(f))
            /\ ~InHand(fullname(f))
            /\ CopiesIn(fullname(f), extracted) = 0
            /\ f.fname \in found =>
                  \E j \in 1..Len(LibWalk) :
                      LibWalk[j].fname = f.fname /\ somatching(f.fname)

\* A finished check() of a binary root that holds a broken symlink and a file
\* that was extracted.
C10_Witness ==
    /\ pc = "returned"
    /\ \E i \in 1..Len(BinWalk) :
          /\ fullname(BinWalk[i]) \in BrokenLinks
          /\ BinWalk[i].fname \notin found
    /\ submitted # << >>

\* The DT_NEEDED names collect_needed reads from the file at p, in order.
TagsRead(p) ==
    LET body == BodyAt(p)
        n == IF body.kind # "elf" THEN 0
             ELSE IF body.error_after = NoError THEN Len(body.needed)
             ELSE body.error_after
    IN  [k \in 1..n |-> bytes2str(body.needed[k])]

\* The requirers of name that extracting the paths subs one after the other,
\* in this order, appends.
RECURSIVE InSubmissionOrder(_, _)
InSubmissionOrder(name, subs) ==
    IF subs = << >> THEN << >>
    ELSE [k \in 1..Count(TagsRead(Head(subs)), name) |-> Head(subs)]
            \o InSubmissionOrder(name, Tail(subs))

\* The sequence s, k times over.
RECURSIVE Repeated(_, _)
Repeated(s, k) == IF k = 0 THEN << >> ELSE s \o Repeated(s, k - 1)

\* The worker threads that run the loop of worker().
LiveWorkers == { w \in Workers : wpc[w] \notin {"unstarted", "dead"} }

\* C11: in the report of a check(), the requirer list of every missing name
\* holds its requirers in the order in which their paths were submitted (on an
\* unchanged filesystem, the submissions of every check() so far).
C11_RequirersInSubmissionOrder ==
    pc = "returned" =>
        \A n \in DOMAIN reports[Len(reports)] :
            reports[Len(reports)][n] =
                Repeated(InSubmissionOrder(n, submitted), nchecks)

\* C16: at every moment at most one worker thread exists that takes items
\* from job_queue and appends to lib2required_by.
C16_AtMostOneWorker == Cardinality(LiveWorkers) <= 1

\* C17: within one check() no path is submitted more than once, and a path is
\* a requirer of a name as many times as its object declares the name in each
\* check() that extracted it.
C17_NoPathSubmittedTwice ==
    /\ \A p \in Paths : Count(submitted, p) <= 1
    /\ PastJoin =>
          \A p \in Paths : \A n \in DOMAIN lib2required_by :
              Count(lib2required_by[n], p) <= nchecks * Count(TagsRead(p), n)

\* The library files of the walk whose own extraction yields nothing usable:
\* the parse fails, open is denied, or there is no DT_NEEDED entry.
Unparsed(f) ==
    \/ f.body.kind \in {"notelf", "denied"}
    \/ f.body.kind = "elf" /\ (f.body.error_after # NoError \/ f.body.needed = << >>)

\* C12: collect_needed never changes found; every file with a shared-library
\* name that check() has looked at under a library root is in found whatever
\* its extraction does, and its name is never reported missing.
C12_AvailabilityNotGatedByExtraction ==
    /\ [][(\E w \in Workers : worker(w)) => found' = found]_vars
    /\ [](\A i \in 1..Len(LibWalk) :
            (SharedLibName(LibWalk[i].fname) /\ Visited(i)) =>
                /\ LibWalk[i].fname \in found
                /\ pc = "returned" =>
                      LibWalk[i].fname \notin DOMAIN reports[Len(reports)])

\* A finished check() with a library whose own extraction yielded nothing,
\* that other objects require, and that is not reported.
C12_Witness ==
    /\ pc = "returned"
    /\ \E i \in 1..Len(LibWalk) :
          /\ ~LibWalk[i].islink
          /\ Unparsed(LibWalk[i])
          /\ CopiesIn(fullname(LibWalk[i]), extracted) > 0
          /\ LibWalk[i].fname \in DOMAIN lib2required_by
          /\ LibWalk[i].fname \notin DOMAIN reports[Len(reports)]

\* C13: while check() enumerates, its next step (a put included) can always be
\* taken whatever the workers do; after join() nothing blocks it; a worker that
\* cannot take a step is at job_queue.get() with the queue empty.
C13_OnlyJoinBlocksMain ==
    /\ (pc = "enumerate" /\ idx < ChainLen) =>
          ENABLED (enumerate_shared_libs \/ enumerate_binaries)
    /\ pc \in {"joined", "report"} => ENABLED main_in_check
    /\ \A w \in LiveWorkers :
          ~(ENABLED worker(w)) => (wpc[w] = "get" /\ job_queue = << >>)

\* The main thread is still enumerating while paths wait on the queue and the
\* worker is reading tags.
C13_Witness ==
    /\ pc = "enumerate"
    /\ idx < ChainLen
    /\ job_queue # << >>
    /\ \E w \in Workers : wpc[w] = "tags"

\* C14: in the scenario, the first check() reports exactly libbaz.so.2 required
\* by libbar.so and libqux.so required by app, under every interleaving.
C14_ScenarioReport ==
    Len(reports) >= 1 =>
        reports[1] = (libbaz_so_2 :> << << "/usr/lib", libbar_so >> >>)
                        @@ (libqux_so :> << << "/usr/bin", app >> >>)

\* The scenario's check() has printed its report, with libfoo.so.1 required
\* and available.
C14_Witness ==
    /\ Len(reports) >= 1
    /\ libfoo_so_1 \in (DOMAIN lib2required_by) \cap found

\* A root of the configuration under which the filesystem holds nothing, as
\* a directory that does not exist.
Roots == { libdirs[k] : k \in 1..Len(libdirs) } \cup { bindirs[k] : k \in 1..Len(bindirs) }
EmptyRoots == { r \in Roots : \A i \in 1..Len(files) : ~Under(files[i].dpath, r) }

\* C15: with a root that does not exist among the configured roots, once the
\* enumeration is over every non-link file under a binary root and every
\* non-link file under a library root that the pattern accepts was submitted,
\* and the only warnings are those of denied files and of the report.
C15_MissingRootSkipped ==
    ("/nonexistent" \in EmptyRoots /\ PastJoin) =>
        /\ \A i \in 1..Len(files) :
              LET f == files[i] IN
              ~f.islink =>
                /\ (\E k \in 1..Len(bindirs) : Under(f.dpath, bindirs[k])) =>
                      Count(submitted, fullname(f)) >= 1
                /\ ((\E k \in 1..Len(libdirs) : Under(f.dpath, libdirs[k]))
                        /\ somatching(f.fname)) =>
                      Count(submitted, fullname(f)) >= 1
        /\ \A k \in 1..Len(warnings[nchecks]) :
              \/ warnings[nchecks][k] = NotFoundWarning
              \/ /\ warnings[nchecks][k] \in Paths
                 /\ BodyAt(warnings[nchecks][k]).kind = "denied"

\* The enumeration is over and submitted a file of the root that PATH lists
\* after the root that does not exist.
C15_Witness ==
    /\ PastJoin
    /\ \E i \in 1..Len(submitted) : submitted[i][1] = "/home/bin"

====
